---- MODULE Spec2Model ----
(***************************************************************************)
(* RedisClusterSimulator of migrate_to_redis.py: the in-memory key-value   *)
(* store with hash-slot routing (data, sets, slots, node_assignment) and   *)
(* its operations hset/hget/hgetall/set/get/sadd/smembers/keys and         *)
(* cluster_info, and KeyValueMapper with migrate_to_redis, which writes    *)
(* the rows of the three tables into the store.                            *)
(*                                                                         *)
(* Python strings are sequences of one-character strings, so that index,   *)
(* slicing, startswith, replace and the substring test act on characters.  *)
(* Python values carry a tag (None, str, int, bool, dict, set, list) and   *)
(* an exception that leaves a method is the value [tag |-> "raise"].       *)
(***************************************************************************)
EXTENDS Integers, Sequences, FiniteSets, TLC

VARIABLES
  data,             \* self.data: key -> str (set) or dict (hset)
  sets,             \* self.sets: key -> set of members (sadd)
  slots,            \* self.slots: key -> slot recorded by a write
  node_assignment,  \* self.node_assignment: key -> node recorded by a write
  op,               \* the method called last and its arguments
  ret,              \* what that call returned or raised
  mig               \* migrate_to_redis: the rows it reads and the calls it has made

vars == <<data, sets, slots, node_assignment, op, ret, mig>>

----------------------------------------------------------------------------
(* Characters and strings *)

Ascii ==
  << " ", "!", "\"", "#", "$", "%", "&", "'", "(", ")", "*", "+", ",", "-", ".", "/",
     "0", "1", "2", "3", "4", "5", "6", "7", "8", "9", ":", ";", "<", "=", ">", "?",
     "@", "A", "B", "C", "D", "E", "F", "G", "H", "I", "J", "K", "L", "M", "N", "O",
     "P", "Q", "R", "S", "T", "U", "V", "W", "X", "Y", "Z", "[", "\\", "]", "^", "_",
     "GRAVE", "a", "b", "c", "d", "e", "f", "g", "h", "i", "j", "k", "l", "m", "n", "o",
     "p", "q", "r", "s", "t", "u", "v", "w", "x", "y", "z", "{", "|", "}", "~" >>

\* ord(c) of a printable ASCII character: Ascii[1] is chr(32).  chr(96), the
\* backquote, is spelled GRAVE: the lexer accepts no backquote in a string.
ord(c) == 31 + (CHOOSE i \in 1..Len(Ascii) : Ascii[i] = c)

\* c in s, for a character c
HasChar(s, c) == \E i \in 1..Len(s) : s[i] = c

\* s.index(c): the 0-based position of the first c (called only when c in s)
index(s, c) == (CHOOSE i \in 1..Len(s) : s[i] = c /\ \A j \in 1..(i-1) : s[j] # c) - 1

\* s[start:end] with 0 <= start, 0 <= end <= len(s): empty when end <= start
slice(s, start, end) ==
  IF end <= start THEN << >> ELSE [i \in 1..(end - start) |-> s[start + i]]

\* s.startswith(p)
startswith(s, p) == Len(p) <= Len(s) /\ SubSeq(s, 1, Len(p)) = p

\* s.replace(c, ""): every occurrence of the character c removed
replace(s, c) == SelectSeq(s, LAMBDA x : x # c)

\* p in s, for strings: p occurs as a contiguous substring of s
str_contains(s, p) ==
  \E i \in 0..(Len(s) - Len(p)) : SubSeq(s, i + 1, i + Len(p)) = p

----------------------------------------------------------------------------
(* The strings the operations are called with *)

K_first_name == <<"C", "u", "s", "t", "o", "m", "e", "r", ":", "1", ":", "f", "i", "r", "s", "t", "_", "n", "a", "m", "e">>
K_email == <<"C", "u", "s", "t", "o", "m", "e", "r", ":", "1", ":", "e", "m", "a", "i", "l">>
K_price == <<"P", "r", "o", "d", "u", "c", "t", ":", "1", ":", "p", "r", "i", "c", "e">>
V_Ahmed == <<"A", "h", "m", "e", "d">>
V_mail == <<"a", "h", "m", "e", "d", ".", "r", "a", "s", "h", "i", "d", "@", "e", "m", "a", "i", "l", ".", "c", "o", "m">>
F_email == <<"e", "m", "a", "i", "l">>
F_city == <<"c", "i", "t", "y">>
V_Riyadh == <<"R", "i", "y", "a", "d", "h">>
M_1001 == <<"1", "0", "0", "1">>
M_1002 == <<"1", "0", "0", "2">>
P_all == <<"*">>
P_customer == <<"C", "u", "s", "t", "o", "m", "e", "r", ":", "*">>
P_product == <<"P", "r", "o", "d", "u", "c", "t", ":", "*">>
P_mid == <<"C", "u", "s", "t", "o", "m", "e", "r", ":", "*", ":", "e", "m", "a", "i", "l">>
P_suffix == <<"*", ":", "e", "m", "a", "i", "l">>
P_infix == <<":", "1", ":">>
P_bare == <<"P", "r", "o", "d", "u", "c", "t", ":">>
T_plain == <<"{", "t", "}">>
T_around == <<"a", "{", "t", "}", "b">>
T_close_first == <<"}", "{", "t", "}">>
T_other == <<"{", "u", "}", "x">>
T_none == <<"t">>
K_empty == << >>
K_open == <<"{", "a">>

----------------------------------------------------------------------------
(* KeyValueMapper and the calls of migrate_to_redis *)

\* the key prefixes, the field names and the column values of the rows
S_customer == <<"c", "u", "s", "t", "o", "m", "e", "r", ":">>
S_product == <<"p", "r", "o", "d", "u", "c", "t", ":">>
S_order == <<"o", "r", "d", "e", "r", ":">>
S_idx_customer_email == <<"i", "d", "x", ":", "c", "u", "s", "t", "o", "m", "e", "r", ":", "e", "m", "a", "i", "l", ":">>
S_idx_product_category == <<"i", "d", "x", ":", "p", "r", "o", "d", "u", "c", "t", ":", "c", "a", "t", "e", "g", "o", "r", "y", ":">>
S_idx_customer == <<"i", "d", "x", ":", "c", "u", "s", "t", "o", "m", "e", "r", ":">>
S_orders == <<":", "o", "r", "d", "e", "r", "s">>
S_idx_orders_status == <<"i", "d", "x", ":", "o", "r", "d", "e", "r", "s", ":", "s", "t", "a", "t", "u", "s", ":">>
S_uncategorized == <<"u", "n", "c", "a", "t", "e", "g", "o", "r", "i", "z", "e", "d">>
S_pending == <<"p", "e", "n", "d", "i", "n", "g">>
F_customer_id == <<"c", "u", "s", "t", "o", "m", "e", "r", "_", "i", "d">>
F_first_name == <<"f", "i", "r", "s", "t", "_", "n", "a", "m", "e">>
F_last_name == <<"l", "a", "s", "t", "_", "n", "a", "m", "e">>
F_phone == <<"p", "h", "o", "n", "e">>
F_country == <<"c", "o", "u", "n", "t", "r", "y">>
F_created_at == <<"c", "r", "e", "a", "t", "e", "d", "_", "a", "t">>
F_product_id == <<"p", "r", "o", "d", "u", "c", "t", "_", "i", "d">>
F_product_name == <<"p", "r", "o", "d", "u", "c", "t", "_", "n", "a", "m", "e">>
F_category == <<"c", "a", "t", "e", "g", "o", "r", "y">>
F_price == <<"p", "r", "i", "c", "e">>
F_stock_quantity == <<"s", "t", "o", "c", "k", "_", "q", "u", "a", "n", "t", "i", "t", "y">>
F_description == <<"d", "e", "s", "c", "r", "i", "p", "t", "i", "o", "n">>
F_order_id == <<"o", "r", "d", "e", "r", "_", "i", "d">>
F_order_date == <<"o", "r", "d", "e", "r", "_", "d", "a", "t", "e">>
F_status == <<"s", "t", "a", "t", "u", "s">>
F_total_amount == <<"t", "o", "t", "a", "l", "_", "a", "m", "o", "u", "n", "t">>
F_shipping_address == <<"s", "h", "i", "p", "p", "i", "n", "g", "_", "a", "d", "d", "r", "e", "s", "s">>
V_Fatima == <<"F", "a", "t", "i", "m", "a">>
V_Rashid == <<"A", "l", "-", "R", "a", "s", "h", "i", "d">>
V_Hassan == <<"H", "a", "s", "s", "a", "n">>
V_mail_ahmed == <<"a", "h", "m", "e", "d", "@", "e", "m", "a", "i", "l", ".", "c", "o", "m">>
V_mail_fatima == <<"f", "a", "t", "i", "m", "a", "@", "e", "m", "a", "i", "l", ".", "c", "o", "m">>
V_phone == <<"+", "9", "6", "6", "5", "0", "1", "2", "3", "4", "5", "6", "7">>
V_Jeddah == <<"J", "e", "d", "d", "a", "h">>
V_country == <<"S", "a", "u", "d", "i", " ", "A", "r", "a", "b", "i", "a">>
V_date == <<"2", "0", "2", "4", "-", "0", "1", "-", "1", "5">>
V_Laptop == <<"L", "a", "p", "t", "o", "p", " ", "P", "r", "o", " ", "1", "5">>
V_Mouse == <<"W", "i", "r", "e", "l", "e", "s", "s", " ", "M", "o", "u", "s", "e">>
V_Electronics == <<"E", "l", "e", "c", "t", "r", "o", "n", "i", "c", "s">>
V_electronics == <<"e", "l", "e", "c", "t", "r", "o", "n", "i", "c", "s">>
V_Furniture == <<"F", "u", "r", "n", "i", "t", "u", "r", "e">>
V_desc == <<"E", "r", "g", "o", "n", "o", "m", "i", "c", " ", "w", "i", "r", "e", "l", "e", "s", "s", " ", "m", "o", "u", "s", "e">>
V_delivered == <<"d", "e", "l", "i", "v", "e", "r", "e", "d">>
V_shipped == <<"s", "h", "i", "p", "p", "e", "d">>
V_address == <<"4", "5", "6", " ", "T", "a", "h", "l", "i", "a", " ", "S", "t", "r", "e", "e", "t", ",", " ", "J", "e", "d", "d", "a", "h">>

\* SQL NULL, which sqlite3 hands over as None: no string, since every element
\* of a string is one character
NULL == <<"None">>

\* x or default, for a column x that is a str or None
py_or(x, default) == IF x = NULL \/ x = << >> THEN default ELSE x

\* str(n) of an int n >= 0
RECURSIVE str_int(_)
str_int(n) ==
  IF n < 10 THEN <<Ascii[17 + n]>>
  ELSE str_int(n \div 10) \o <<Ascii[17 + (n % 10)]>>

\* str(x) of a float x >= 0 with a whole value, as a REAL column holds it
str_real(x) == str_int(x) \o <<".", "0">>

\* s.lower() on ASCII
lower(s) ==
  [i \in 1..Len(s) |->
    IF ord(s[i]) >= 65 /\ ord(s[i]) <= 90 THEN Ascii[ord(s[i]) + 1] ELSE s[i]]

\* The rows of the tables.  row[i] of the source is row[i + 1] here.
CustomerIds == {1, 2}
Emails == {V_mail_ahmed, V_mail_fatima}
customer_row(id, email) ==
  IF id = 1
  THEN <<id, V_Ahmed, V_Rashid, email, V_phone, V_Riyadh, V_country, V_date>>
  ELSE <<id, V_Fatima, V_Hassan, email, NULL, V_Jeddah, V_country, NULL>>
CustomerRows == {customer_row(id, email) : id \in CustomerIds, email \in Emails}

ProductIds == {101, 102}
Categories == {V_Electronics, V_electronics, NULL}
product_row(id, category) ==
  IF id = 101
  THEN <<id, V_Laptop, category, 4500, 25, NULL>>
  ELSE <<id, V_Mouse, category, 150, 100, V_desc>>
ProductRows == {product_row(id, category) : id \in ProductIds, category \in Categories}

OrderIds == {1001, 1002}
Statuses == {V_delivered, S_pending, NULL}
order_row(id, customer_id, status) ==
  IF id = 1001
  THEN <<id, customer_id, V_date, status, 4650, V_address>>
  ELSE <<id, customer_id, V_date, status, 3050, NULL>>
OrderRows ==
  {order_row(id, customer_id, status) :
     id \in OrderIds, customer_id \in CustomerIds, status \in Statuses}

\* what SELECT * returns: the rows in the order of their INTEGER PRIMARY KEY,
\* which is unique
tables_of(rows) ==
  {t \in UNION {[1..n -> rows] : n \in 0..Cardinality({r[1] : r \in rows})} :
     \A i \in 1..Len(t), j \in 1..Len(t) : i < j => t[i][1] < t[j][1]}

\* customers.email is UNIQUE NOT NULL
CustomersTables ==
  {t \in tables_of(CustomerRows) :
     \A i \in 1..Len(t), j \in 1..Len(t) : i # j => t[i][4] # t[j][4]}
ProductsTables == tables_of(ProductRows)
OrdersTables == tables_of(OrderRows)

\* A faulty variant of map_customer: the index is keyed by the first name.
map_customer_indexes_first_name(row) ==
  [main_key |-> S_customer \o str_int(row[1]),
   main_value |->
     (F_customer_id :> str_int(row[1])) @@ (F_first_name :> row[2])
       @@ (F_last_name :> row[3]) @@ (F_email :> row[4])
       @@ (F_phone :> py_or(row[5], << >>)) @@ (F_city :> py_or(row[6], << >>))
       @@ (F_country :> py_or(row[7], << >>))
       @@ (F_created_at :> py_or(row[8], << >>)),
   indexes |->
     <<[key |-> S_idx_customer_email \o row[2], value |-> str_int(row[1]),
        type |-> "None"]>>]

\* idx.get("type") of an index is "SET", or "None" when the index has no type
map_customer(row) ==
  [main_key |-> S_customer \o str_int(row[1]),
   main_value |->
     (F_customer_id :> str_int(row[1])) @@ (F_first_name :> row[2])
       @@ (F_last_name :> row[3]) @@ (F_email :> row[4])
       @@ (F_phone :> py_or(row[5], << >>)) @@ (F_city :> py_or(row[6], << >>))
       @@ (F_country :> py_or(row[7], << >>))
       @@ (F_created_at :> py_or(row[8], << >>)),
   indexes |->
     <<[key |-> S_idx_customer_email \o row[4], value |-> str_int(row[1]),
        type |-> "None"]>>]

\* A faulty variant of map_product: the index key keeps the case of the category.
map_product_keeps_case(row) ==
  LET category == py_or(row[3], S_uncategorized)
  IN  [main_key |-> S_product \o str_int(row[1]),
       main_value |->
         (F_product_id :> str_int(row[1])) @@ (F_product_name :> row[2])
           @@ (F_category :> category) @@ (F_price :> str_real(row[4]))
           @@ (F_stock_quantity :> str_int(row[5]))
           @@ (F_description :> py_or(row[6], << >>)),
       indexes |->
         <<[key |-> S_idx_product_category \o category,
            value |-> str_int(row[1]), type |-> "SET"]>>]

map_product(row) ==
  LET category == py_or(row[3], S_uncategorized)
  IN  [main_key |-> S_product \o str_int(row[1]),
       main_value |->
         (F_product_id :> str_int(row[1])) @@ (F_product_name :> row[2])
           @@ (F_category :> category) @@ (F_price :> str_real(row[4]))
           @@ (F_stock_quantity :> str_int(row[5]))
           @@ (F_description :> py_or(row[6], << >>)),
       indexes |->
         <<[key |-> S_idx_product_category \o lower(category),
            value |-> str_int(row[1]), type |-> "SET"]>>]

map_order(row) ==
  LET status == py_or(row[4], S_pending)
  IN  [main_key |-> S_order \o str_int(row[1]),
       main_value |->
         (F_order_id :> str_int(row[1])) @@ (F_customer_id :> str_int(row[2]))
           @@ (F_order_date :> row[3]) @@ (F_status :> status)
           @@ (F_total_amount :> str_real(row[5]))
           @@ (F_shipping_address :> py_or(row[6], << >>)),
       indexes |->
         <<[key |-> S_idx_customer \o str_int(row[2]) \o S_orders,
            value |-> str_int(row[1]), type |-> "SET"],
           [key |-> S_idx_orders_status \o status,
            value |-> str_int(row[1]), type |-> "SET"]>>]

\* The calls migrate_to_redis makes on the simulator for one mapped row:
\* hset of the main record, then one call per index.  The customers loop calls
\* set for every index; the products and orders loops call sadd for an index
\* of type SET and set otherwise.
customer_calls(mapped) ==
  <<[method |-> "hset", key |-> mapped.main_key, value |-> mapped.main_value]>>
    \o [i \in 1..Len(mapped.indexes) |->
         [method |-> "set", key |-> mapped.indexes[i].key,
          value |-> mapped.indexes[i].value]]

typed_calls(mapped) ==
  <<[method |-> "hset", key |-> mapped.main_key, value |-> mapped.main_value]>>
    \o [i \in 1..Len(mapped.indexes) |->
         [method |-> IF mapped.indexes[i].type = "SET" THEN "sadd" ELSE "set",
          key |-> mapped.indexes[i].key, value |-> mapped.indexes[i].value]]

RECURSIVE flatten(_)
flatten(lists) == IF lists = << >> THEN << >> ELSE Head(lists) \o flatten(Tail(lists))

\* The calls for every row, mapped once: TLC evaluates a constant definition
\* a single time.
CustomerCalls == [row \in CustomerRows |-> customer_calls(map_customer(row))]
ProductCalls == [row \in ProductRows |-> typed_calls(map_product(row))]
OrderCalls == [row \in OrderRows |-> typed_calls(map_order(row))]

\* every call of migrate_to_redis over the three tables, in order
migration_calls(customers, products, orders) ==
  flatten([i \in 1..Len(customers) |-> CustomerCalls[customers[i]]])
    \o flatten([i \in 1..Len(products) |-> ProductCalls[products[i]]])
    \o flatten([i \in 1..Len(orders) |-> OrderCalls[orders[i]]])

\* the keys the migration writes, over all rows
MigrationKeys ==
  UNION {{CustomerCalls[r][i].key : i \in 1..Len(CustomerCalls[r])} : r \in CustomerRows}
    \cup UNION {{ProductCalls[r][i].key : i \in 1..Len(ProductCalls[r])} : r \in ProductRows}
    \cup UNION {{OrderCalls[r][i].key : i \in 1..Len(OrderCalls[r])} : r \in OrderRows}

----------------------------------------------------------------------------
(* Python integers of unbounded size: limbs base 2^16, least significant   *)
(* first, << >> is 0.  _crc16 accumulates without truncation, and the      *)
(* accumulator of a 20-character key has about 100 bits.                   *)

\* 0xFFFF + 1: a limb holds what the mask of _crc16 keeps
Limb == 65536

RECURSIVE big_shl5_from(_, _, _)
big_shl5_from(a, i, carry) ==
  IF i > Len(a) THEN (IF carry = 0 THEN << >> ELSE <<carry>>)
  ELSE LET t == a[i] * 32 + carry
       IN  <<t % Limb>> \o big_shl5_from(a, i + 1, t \div Limb)

\* a << 5
big_shl5(a) == big_shl5_from(a, 1, 0)

RECURSIVE big_add_from(_, _, _, _)
big_add_from(a, b, i, carry) ==
  IF i > Len(a) /\ i > Len(b) THEN (IF carry = 0 THEN << >> ELSE <<carry>>)
  ELSE LET x == IF i <= Len(a) THEN a[i] ELSE 0
           y == IF i <= Len(b) THEN b[i] ELSE 0
           t == x + y + carry
       IN  <<t % Limb>> \o big_add_from(a, b, i + 1, t \div Limb)

\* a + b
big_add(a, b) == big_add_from(a, b, 1, 0)

\* a small non-negative int (< 2^16) as a big integer
big_of(n) == IF n = 0 THEN << >> ELSE <<n>>

\* a & 0xFFFF: the least significant limb
big_and_ffff(a) == IF a = << >> THEN 0 ELSE a[1]

----------------------------------------------------------------------------
(* Hash slot routing *)

\* the loop of _crc16 from character i on.  TLC passes an operator's arguments
\* unevaluated; the test of h evaluates it here, once per character, so the
\* depth of the evaluation does not grow with the key (both branches are the
\* same call).
RECURSIVE crc16_loop(_, _, _)
crc16_loop(key, i, hash_val) ==
  IF i > Len(key) THEN hash_val
  ELSE LET h == big_add(big_add(big_shl5(hash_val), hash_val), big_of(ord(key[i])))
       IN  IF h = << >> THEN crc16_loop(key, i + 1, << >>)
           ELSE crc16_loop(key, i + 1, h)

\* A faulty variant of _crc16: the final mask keeps 15 bits (0x7FFF).
crc16_masks_15_bits(key) == big_and_ffff(crc16_loop(key, 1, << >>)) % 32768

crc16_compute(key) == big_and_ffff(crc16_loop(key, 1, << >>))

\* The keys of the model hashed once: TLC evaluates a constant definition a
\* single time, and _crc16 is called on every write.
HashedKeys ==
  {K_first_name, K_email, K_price, T_plain, T_around, T_close_first, T_other, T_none,
   K_empty, K_open} \cup MigrationKeys

crc16_memo == [key \in HashedKeys |-> crc16_compute(key)]

_crc16(key) == IF key \in HashedKeys THEN crc16_memo[key] ELSE crc16_compute(key)

\* A faulty variant of _get_slot: the reduction modulo 16384 is missing.
get_slot_no_modulo(key) ==
  LET k == IF HasChar(key, "{") /\ HasChar(key, "}")
           THEN slice(key, index(key, "{") + 1, index(key, "}"))
           ELSE key
  IN  _crc16(k)

_get_slot(key) ==
  LET k == IF HasChar(key, "{") /\ HasChar(key, "}")
           THEN slice(key, index(key, "{") + 1, index(key, "}"))
           ELSE key
  IN  _crc16(k) % 16384

\* A faulty variant of _get_node: the first boundary is off by one.
get_node_off_by_one(slot) ==
  IF slot <= 4096 THEN "Master-0 (port 7000)"
  ELSE IF slot < 8192 THEN "Master-1 (port 7001)"
  ELSE IF slot < 12288 THEN "Master-2 (port 7002)"
  ELSE "Master-3 (port 7003)"

_get_node(slot) ==
  IF slot < 4096 THEN "Master-0 (port 7000)"
  ELSE IF slot < 8192 THEN "Master-1 (port 7001)"
  ELSE IF slot < 12288 THEN "Master-2 (port 7002)"
  ELSE "Master-3 (port 7003)"

----------------------------------------------------------------------------
(* Python values *)

PyNone == [tag |-> "None"]
PyStr(s) == [tag |-> "str", v |-> s]
PyInt(n) == [tag |-> "int", v |-> n]
PyBool(b) == [tag |-> "bool", v |-> b]
PyDict(m) == [tag |-> "dict", v |-> m]
PySet(S) == [tag |-> "set", v |-> S]
PyList(l) == [tag |-> "list", v |-> l]
PyRaise(e) == [tag |-> "raise", v |-> e]


----------------------------------------------------------------------------
(* Python dicts.  data and sets keep insertion order, which keys() shows:  *)
(* a dict is the sequence of its <<key, value>> items.  Nothing reads the  *)
(* order of slots and node_assignment (cluster_info only counts), so they  *)
(* are functions from the recorded keys.                                   *)

dict_has(d, k) == \E i \in 1..Len(d) : d[i][1] = k

dict_get(d, k) == d[CHOOSE i \in 1..Len(d) : d[i][1] = k][2]

\* d[k] = v: a new key goes last, an existing key keeps its place
dict_put(d, k, v) ==
  IF dict_has(d, k)
  THEN [i \in 1..Len(d) |-> IF d[i][1] = k THEN <<k, v>> ELSE d[i]]
  ELSE Append(d, <<k, v>>)

\* list(d.keys())
dict_keys(d) == [i \in 1..Len(d) |-> d[i][1]]

map_put(f, k, v) == [x \in (DOMAIN f) \cup {k} |-> IF x = k THEN v ELSE f[x]]

----------------------------------------------------------------------------
(* The inputs of the operations *)

\* the keys written through set and hset, and the keys written through sadd
\* (K_email is written through both)
DataKeys == {K_first_name, K_email}
SetKeys == {K_email, K_price}
StoreKeys == DataKeys \cup SetKeys

\* the keys with a {tag} segment, written in TagSpec
TagKeys == {T_plain, T_around, T_close_first, T_other}

\* the malformed keys: the empty string, and a '{' that no '}' follows
MalformedKeys == {K_empty, K_open}

\* the keys _crc16 is called on in HashSpec: every string of up to MaxKeyLen
\* characters of HashAlphabet, and the longer keys of the other specifications
HashAlphabet == {"a", ":", "~"}
MaxKeyLen == 4
HashKeys ==
  UNION {[1..n -> HashAlphabet] : n \in 0..MaxKeyLen}
    \cup StoreKeys \cup TagKeys \cup MalformedKeys

\* the keys _get_slot is called on directly
RoutedKeys == StoreKeys \cup TagKeys \cup {T_none}

\* the scalar values of set
Values == {V_Ahmed, V_mail}

\* the mappings of hset: field -> string
Mapping1 == (F_email :> V_mail) @@ (F_city :> V_Riyadh)
Mapping2 == (F_email :> V_Ahmed)
Mappings == {Mapping1, Mapping2}

\* the fields of hget
Fields == {F_email, F_city}

\* the members of sadd, which takes any number of them
Members == {M_1001, M_1002}
MaxMembers == 2
MemberLists == UNION {[1..n -> Members] : n \in 0..MaxMembers}

\* the patterns of keys
Patterns == {P_all, P_customer, P_product, P_mid, P_suffix, P_infix, P_bare}

----------------------------------------------------------------------------
(* RedisClusterSimulator *)

\* migrate_to_redis is not called: no rows, no calls
NoMigration == [customers |-> << >>, products |-> << >>, orders |-> << >>, done |-> 0]

Init ==
  /\ data = << >>
  /\ sets = << >>
  /\ slots = << >>
  /\ node_assignment = << >>
  /\ op = [name |-> "__init__", args |-> << >>]
  /\ ret = PyNone
  /\ mig = NoMigration

store == <<data, sets, slots, node_assignment>>

\* A faulty variant of hset: the fields are merged into an existing record
\* (self.data[key].update(mapping)).
hset_merges(key, mapping) ==
  LET slot == _get_slot(key)
      node == _get_node(slot)
      old == IF dict_has(data, key) /\ dict_get(data, key).tag = "dict"
             THEN dict_get(data, key).v ELSE << >>
  IN  /\ data' = dict_put(data, key, PyDict(mapping @@ old))
      /\ slots' = map_put(slots, key, slot)
      /\ node_assignment' = map_put(node_assignment, key, node)
      /\ UNCHANGED sets
      /\ op' = [name |-> "hset", args |-> <<key, mapping>>]
      /\ ret' = PyBool(TRUE)

hset(key, mapping) ==
  LET slot == _get_slot(key)
      node == _get_node(slot)
  IN  /\ data' = dict_put(data, key, PyDict(mapping))
      /\ slots' = map_put(slots, key, slot)
      /\ node_assignment' = map_put(node_assignment, key, node)
      /\ UNCHANGED sets
      /\ op' = [name |-> "hset", args |-> <<key, mapping>>]
      /\ ret' = PyBool(TRUE)

\* what hget(key, field) returns or raises.  On a str entry, "field in
\* self.data[key]" is the substring test and self.data[key][field] indexes a
\* str with a str: TypeError.
hget_returns(key, field) ==
  IF dict_has(data, key)
  THEN LET entry == dict_get(data, key)
       IN  IF entry.tag = "dict"
           THEN (IF field \in DOMAIN entry.v THEN PyStr(entry.v[field]) ELSE PyNone)
           ELSE (IF str_contains(entry.v, field) THEN PyRaise("TypeError") ELSE PyNone)
  ELSE PyNone

hget(key, field) ==
  /\ op' = [name |-> "hget", args |-> <<key, field>>]
  /\ ret' = hget_returns(key, field)
  /\ UNCHANGED store

\* self.data.get(key, {})
hgetall_returns(key) ==
  IF dict_has(data, key) THEN dict_get(data, key) ELSE PyDict(<< >>)

hgetall(key) ==
  /\ op' = [name |-> "hgetall", args |-> <<key>>]
  /\ ret' = hgetall_returns(key)
  /\ UNCHANGED store

\* A faulty variant of set: data is rebuilt with the one entry written.
set_drops_others(key, value) ==
  LET slot == _get_slot(key)
      node == _get_node(slot)
  IN  /\ data' = <<<<key, PyStr(value)>>>>
      /\ slots' = map_put(slots, key, slot)
      /\ node_assignment' = map_put(node_assignment, key, node)
      /\ UNCHANGED sets
      /\ op' = [name |-> "set", args |-> <<key, value>>]
      /\ ret' = PyBool(TRUE)

\* A faulty variant of set: an existing entry is kept (setdefault).
set_keeps_existing(key, value) ==
  LET slot == _get_slot(key)
      node == _get_node(slot)
  IN  /\ data' = IF dict_has(data, key) THEN data ELSE dict_put(data, key, PyStr(value))
      /\ slots' = map_put(slots, key, slot)
      /\ node_assignment' = map_put(node_assignment, key, node)
      /\ UNCHANGED sets
      /\ op' = [name |-> "set", args |-> <<key, value>>]
      /\ ret' = PyBool(TRUE)

set(key, value) ==
  LET slot == _get_slot(key)
      node == _get_node(slot)
  IN  /\ data' = dict_put(data, key, PyStr(value))
      /\ slots' = map_put(slots, key, slot)
      /\ node_assignment' = map_put(node_assignment, key, node)
      /\ UNCHANGED sets
      /\ op' = [name |-> "set", args |-> <<key, value>>]
      /\ ret' = PyBool(TRUE)

\* self.data.get(key)
get_returns(key) ==
  IF dict_has(data, key) THEN dict_get(data, key) ELSE PyNone

get(key) ==
  /\ op' = [name |-> "get", args |-> <<key>>]
  /\ ret' = get_returns(key)
  /\ UNCHANGED store

\* A faulty variant of the loop of sadd: every member given is counted.
RECURSIVE sadd_loop_counts_all(_, _, _, _)
sadd_loop_counts_all(members, i, s, added) ==
  IF i > Len(members) THEN <<s, added>>
  ELSE sadd_loop_counts_all(members, i + 1, s \cup {members[i]}, added + 1)

\* the loop of sadd over members[i..]: <<the set, added>> at its end
RECURSIVE sadd_loop(_, _, _, _)
sadd_loop(members, i, s, added) ==
  IF i > Len(members) THEN <<s, added>>
  ELSE IF members[i] \notin s
       THEN sadd_loop(members, i + 1, s \cup {members[i]}, added + 1)
       ELSE sadd_loop(members, i + 1, s, added)

\* A faulty variant of sadd: the set is created anew on every call.
sadd_resets_set(key, members) ==
  LET slot == _get_slot(key)
      node == _get_node(slot)
      end == sadd_loop(members, 1, {}, 0)
  IN  /\ sets' = dict_put(sets, key, end[1])
      /\ slots' = map_put(slots, key, slot)
      /\ node_assignment' = map_put(node_assignment, key, node)
      /\ UNCHANGED data
      /\ op' = [name |-> "sadd", args |-> <<key, members>>]
      /\ ret' = PyInt(end[2])

\* A faulty variant of sadd: the slot and the node are never recorded.
sadd_no_bookkeeping(key, members) ==
  LET fresh == ~dict_has(sets, key)
      end == sadd_loop(members, 1, IF fresh THEN {} ELSE dict_get(sets, key), 0)
  IN  /\ sets' = dict_put(sets, key, end[1])
      /\ UNCHANGED <<data, slots, node_assignment>>
      /\ op' = [name |-> "sadd", args |-> <<key, members>>]
      /\ ret' = PyInt(end[2])

sadd(key, members) ==
  LET slot == _get_slot(key)
      node == _get_node(slot)
      fresh == ~dict_has(sets, key)
      end == sadd_loop(members, 1, IF fresh THEN {} ELSE dict_get(sets, key), 0)
  IN  /\ sets' = dict_put(sets, key, end[1])
      /\ slots' = IF fresh THEN map_put(slots, key, slot) ELSE slots
      /\ node_assignment' =
           IF fresh THEN map_put(node_assignment, key, node) ELSE node_assignment
      /\ UNCHANGED data
      /\ op' = [name |-> "sadd", args |-> <<key, members>>]
      /\ ret' = PyInt(end[2])

\* self.sets.get(key, set())
smembers_returns(key) ==
  IF dict_has(sets, key) THEN PySet(dict_get(sets, key)) ELSE PySet({})

smembers(key) ==
  /\ op' = [name |-> "smembers", args |-> <<key>>]
  /\ ret' = smembers_returns(key)
  /\ UNCHANGED store

\* A faulty variant of the key list of keys(): the keys of sets are left out.
data_keys_only == dict_keys(data)

\* list(self.data.keys()) + list(self.sets.keys())
all_keys == dict_keys(data) \o dict_keys(sets)

\* A faulty variant of keys: the literal is looked for anywhere in the key.
keys_returns_substring(pattern) ==
  IF pattern = P_all THEN PyList(all_keys)
  ELSE LET prefix == replace(pattern, "*")
       IN  PyList(SelectSeq(all_keys, LAMBDA key : str_contains(key, prefix)))

keys_returns(pattern) ==
  IF pattern = P_all THEN PyList(all_keys)
  ELSE LET prefix == replace(pattern, "*")
       IN  PyList(SelectSeq(all_keys, LAMBDA key : startswith(key, prefix)))

keys(pattern) ==
  /\ op' = [name |-> "keys", args |-> <<pattern>>]
  /\ ret' = keys_returns(pattern)
  /\ UNCHANGED store

\* A faulty variant of node_counts: the entries of data and the entries of
\* sets are counted, so a key bound in both is counted twice.
node_counts_by_entries ==
  LET nodes == {node_assignment[key] : key \in DOMAIN node_assignment}
      entries == dict_keys(data) \o dict_keys(sets)
  IN  [node \in nodes |->
        Cardinality({i \in 1..Len(entries) : node_assignment[entries[i]] = node})]

\* the loop of cluster_info over the items of node_assignment not yet visited:
\* node_counts[node] = node_counts.get(node, 0) + 1
RECURSIVE node_counts_loop(_, _)
node_counts_loop(keys_left, counts) ==
  IF keys_left = {} THEN counts
  ELSE LET key == CHOOSE k \in keys_left : TRUE
           node == node_assignment[key]
           count == IF node \in DOMAIN counts THEN counts[node] ELSE 0
       IN  node_counts_loop(keys_left \ {key}, map_put(counts, node, count + 1))

\* the dict node_counts of cluster_info, printed one line per item
node_counts == node_counts_loop(DOMAIN node_assignment, << >>)

\* cluster_info prints the report and returns None
cluster_info ==
  /\ op' = [name |-> "cluster_info", args |-> << >>]
  /\ ret' = PyNone
  /\ UNCHANGED store

\* a direct call of the routing helper
get_slot_call(key) ==
  /\ op' = [name |-> "_get_slot", args |-> <<key>>]
  /\ ret' = PyInt(_get_slot(key))
  /\ UNCHANGED store

Next ==
  \/ \E key \in DataKeys, mapping \in Mappings : hset(key, mapping) /\ UNCHANGED mig
  \/ \E key \in StoreKeys, field \in Fields : hget(key, field) /\ UNCHANGED mig
  \/ \E key \in StoreKeys : hgetall(key) /\ UNCHANGED mig
  \/ \E key \in DataKeys, value \in Values : set(key, value) /\ UNCHANGED mig
  \/ \E key \in StoreKeys : get(key) /\ UNCHANGED mig
  \/ \E key \in SetKeys, members \in MemberLists : sadd(key, members) /\ UNCHANGED mig
  \/ \E key \in StoreKeys : smembers(key) /\ UNCHANGED mig
  \/ \E pattern \in Patterns : keys(pattern) /\ UNCHANGED mig
  \/ \E key \in RoutedKeys : get_slot_call(key) /\ UNCHANGED mig
  \/ cluster_info /\ UNCHANGED mig

Spec == Init /\ [][Next]_vars

----------------------------------------------------------------------------
(* TagSpec: the writes on keys that carry a {tag} segment *)

TagNext ==
  \/ \E key \in TagKeys : set(key, V_Ahmed) /\ UNCHANGED mig
  \/ \E key \in TagKeys : sadd(key, <<M_1001>>) /\ UNCHANGED mig
  \/ \E key \in TagKeys : get_slot_call(key) /\ UNCHANGED mig

TagSpec == Init /\ [][TagNext]_vars

----------------------------------------------------------------------------
(* NodeSpec: _get_node on every slot.  The initial state draws the slot, *)
(* the call applies _get_node to it.                                      *)

SlotCount == 16384

NodeInit ==
  /\ data = << >>
  /\ sets = << >>
  /\ slots = << >>
  /\ node_assignment = << >>
  /\ \E slot \in 0..(SlotCount - 1) : op = [name |-> "slot", args |-> <<slot>>]
  /\ ret = PyNone
  /\ mig = NoMigration

get_node_call ==
  /\ op.name = "slot"
  /\ op' = [name |-> "_get_node", args |-> op.args]
  /\ ret' = PyStr(_get_node(op.args[1]))
  /\ UNCHANGED store

NodeNext == get_node_call /\ UNCHANGED mig

NodeSpec == NodeInit /\ [][NodeNext]_vars

----------------------------------------------------------------------------
(* MalformedSpec: the writes and the slot computation on malformed keys *)
(* (and on the well-formed key "t")                                     *)

MalformedNext ==
  \/ \E key \in MalformedKeys \cup {T_none} : set(key, V_Ahmed) /\ UNCHANGED mig
  \/ \E key \in MalformedKeys \cup {T_none} : hset(key, Mapping2) /\ UNCHANGED mig
  \/ \E key \in MalformedKeys \cup {T_none} : sadd(key, <<M_1001>>) /\ UNCHANGED mig
  \/ \E key \in MalformedKeys \cup {T_none} : get_slot_call(key) /\ UNCHANGED mig

MalformedSpec == Init /\ [][MalformedNext]_vars

----------------------------------------------------------------------------
(* HashSpec: _crc16 and _get_slot called on one key, chosen at the start *)

HashInit ==
  /\ data = << >>
  /\ sets = << >>
  /\ slots = << >>
  /\ node_assignment = << >>
  /\ \E key \in HashKeys : op = [name |-> "key", args |-> <<key>>]
  /\ ret = PyNone
  /\ mig = NoMigration

crc16_call(key) ==
  /\ op' = [name |-> "_crc16", args |-> <<key>>]
  /\ ret' = PyInt(_crc16(key))
  /\ UNCHANGED store

HashNext ==
  \/ crc16_call(op.args[1]) /\ UNCHANGED mig
  \/ get_slot_call(op.args[1]) /\ UNCHANGED mig

HashSpec == HashInit /\ [][HashNext]_vars

----------------------------------------------------------------------------
(* MigrateSpec: migrate_to_redis on an empty simulator.  The initial state *)
(* draws the rows of the three tables; each step is the next call that     *)
(* migrate_to_redis makes on the simulator.                                *)

MigrateInit ==
  /\ data = << >>
  /\ sets = << >>
  /\ slots = << >>
  /\ node_assignment = << >>
  /\ op = [name |-> "__init__", args |-> << >>]
  /\ ret = PyNone
  /\ \E customers \in CustomersTables, products \in ProductsTables,
        orders \in OrdersTables :
       mig = [customers |-> customers, products |-> products, orders |-> orders,
              done |-> 0]

migrate_to_redis ==
  LET calls == migration_calls(mig.customers, mig.products, mig.orders)
  IN  /\ mig.done < Len(calls)
      /\ LET call == calls[mig.done + 1]
         IN  \/ call.method = "hset" /\ hset(call.key, call.value)
             \/ call.method = "set" /\ set(call.key, call.value)
             \/ call.method = "sadd" /\ sadd(call.key, <<call.value>>)
      /\ mig' = [mig EXCEPT !.done = @ + 1]

\* migrate_to_redis has returned
migrated ==
  mig.done = Len(migration_calls(mig.customers, mig.products, mig.orders))

MigrateNext == migrate_to_redis

MigrateSpec == MigrateInit /\ [][MigrateNext]_vars

----------------------------------------------------------------------------
(* Properties *)

Range(l) == {l[i] : i \in 1..Len(l)}

\* the keys bound in data or in sets
stored_keys == Range(dict_keys(data)) \cup Range(dict_keys(sets))

\* C1: in the state right after set(k, v), get(k) returns v, the value of the
\* most recent set on k, whatever k held before.
C1_SetGetRoundTrip ==
  op.name = "set" => get_returns(op.args[1]) = PyStr(op.args[2])

\* set(k, v) has just overwritten an entry of k, on a key that also holds a set
C1_Witness ==
  /\ op.name = "set"
  /\ op.args = <<K_email, V_Ahmed>>
  /\ get_returns(K_email) = PyStr(V_Ahmed)
  /\ dict_has(sets, K_email)
  /\ Len(data) = 2

\* key contains the segment {tag}
has_tag_segment(key, tag) == str_contains(key, <<"{">> \o tag \o <<"}">>)

\* C2: keys that contain the same {tag} segment are recorded on the same slot,
\* wherever other characters (extra braces included) stand around the segment.
C2_TagColocation ==
  \A k1 \in DOMAIN slots, k2 \in DOMAIN slots, tag \in {<<"t">>, <<"u">>} :
    (has_tag_segment(k1, tag) /\ has_tag_segment(k2, tag)) => slots[k1] = slots[k2]

\* C3: _get_slot(k) of a non-empty key is a slot in [0, 16384), and it is the
\* slot recorded for k by whatever write came before, in any store state.
C3_SlotInRangeAndStable ==
  (op.name = "_get_slot" /\ op.args[1] # << >>) =>
    /\ ret.tag = "int"
    /\ ret.v \in 0..(SlotCount - 1)
    /\ op.args[1] \in DOMAIN slots => slots[op.args[1]] = ret.v

\* _get_slot called on a key that two earlier writes recorded
C3_Witness ==
  /\ op.name = "_get_slot"
  /\ op.args = <<K_email>>
  /\ ret = PyInt(11839)
  /\ dict_has(data, K_email)
  /\ dict_has(sets, K_email)
  /\ slots[K_email] = 11839

Masters ==
  <<"Master-0 (port 7000)", "Master-1 (port 7001)",
    "Master-2 (port 7002)", "Master-3 (port 7003)">>

\* C4: _get_node maps slot s to Master-i exactly when 4096*i <= s < 4096*(i+1):
\* each slot of [0, 16384) has one owner and the four ranges partition the space.
C4_NodePartition ==
  op.name = "_get_node" =>
    \A i \in 0..3 :
      (ret = PyStr(Masters[i + 1])) <=>
        (4096 * i <= op.args[1] /\ op.args[1] < 4096 * (i + 1))

\* slot 5000 is owned by Master-1
C4_Witness ==
  /\ op.name = "_get_node"
  /\ op.args[1] = 5000
  /\ ret = PyStr("Master-1 (port 7001)")

\* C5: sadd(k, m) returns 1 exactly when m was not a member of the set at k
\* before the call and 0 otherwise, and m is a member afterwards.
C5_SaddIdempotent ==
  [][\A key \in SetKeys, m \in Members :
       (op'.name = "sadd" /\ op'.args = <<key, <<m>>>>) =>
         /\ ret' = PyInt(IF m \in smembers_returns(key).v THEN 0 ELSE 1)
         /\ m \in (smembers_returns(key).v)']_vars

\* the second sadd(k, m): 0 is returned and m is a member
C5_Witness ==
  /\ op.name = "sadd"
  /\ op.args = <<K_price, <<M_1001>>>>
  /\ ret = PyInt(0)
  /\ smembers_returns(K_price) = PySet({M_1001})

\* C6: get, hget, hgetall and smembers never raise: get returns the entry or
\* None, hget a field value or None, hgetall a mapping, smembers a set.
C6_NotFoundIsAValue ==
  /\ op.name = "get" => ret.tag \in {"str", "dict", "None"}
  /\ op.name = "hget" => ret.tag \in {"str", "None"}
  /\ op.name = "hgetall" => ret.tag = "dict"
  /\ op.name = "smembers" => ret.tag = "set"

\* the literal of a pattern that ends in its only *
is_prefix_pattern(pattern) ==
  /\ pattern # << >>
  /\ pattern[Len(pattern)] = "*"
  /\ ~HasChar(SubSeq(pattern, 1, Len(pattern) - 1), "*")

endswith(s, p) ==
  Len(p) <= Len(s) /\ SubSeq(s, Len(s) - Len(p) + 1, Len(s)) = p

\* the matching rules as stated: "*", then a trailing *, then a leading *,
\* then substring containment
stated_match(pattern, key) ==
  IF pattern = P_all THEN TRUE
  ELSE IF pattern[Len(pattern)] = "*"
       THEN startswith(key, SubSeq(pattern, 1, Len(pattern) - 1))
  ELSE IF pattern[1] = "*"
       THEN endswith(key, SubSeq(pattern, 2, Len(pattern)))
  ELSE str_contains(key, pattern)

\* C7 as stated: keys(pattern) returns exactly the keys the stated rules match.
C7_StatedRules ==
  op.name = "keys" =>
    Range(ret.v) = {key \in stored_keys : stated_match(op.args[1], key)}

\* C7 as amended: "*" returns all keys; a pattern whose only * is the trailing
\* one returns the keys that start with the literal before it; every other
\* pattern returns the keys that start with the pattern with its * removed.
C7_PrefixRules ==
  op.name = "keys" =>
    LET pattern == op.args[1]
        literal == IF pattern = P_all THEN << >>
                   ELSE IF is_prefix_pattern(pattern)
                        THEN SubSeq(pattern, 1, Len(pattern) - 1)
                   ELSE SelectSeq(pattern, LAMBDA c : c # "*")
    IN  Range(ret.v) = {key \in stored_keys : startswith(key, literal)}

\* keys("*:email") returns nothing although Customer:1:email is stored
C7_Witness ==
  /\ op.name = "keys"
  /\ op.args = <<P_suffix>>
  /\ ret = PyList(<< >>)
  /\ dict_has(data, K_email)

\* C8: keys(P*) returns exactly the stored keys that start with P.
C8_PrefixPattern ==
  (op.name = "keys" /\ is_prefix_pattern(op.args[1])) =>
    LET P == SubSeq(op.args[1], 1, Len(op.args[1]) - 1)
    IN  Range(ret.v) = {key \in stored_keys : startswith(key, P)}

\* keys("Customer:*") over Customer:1:email and Product:1:price
C8_Witness ==
  /\ op.name = "keys"
  /\ op.args = <<P_customer>>
  /\ stored_keys = {K_email, K_price}
  /\ ret = PyList(<<K_email>>)

\* Customer:1:first_name = Ahmed and Customer:1:email = ahmed.rashid@email.com
\* are the entries of the store
C9_Scenario ==
  /\ data = <<<<K_first_name, PyStr(V_Ahmed)>>, <<K_email, PyStr(V_mail)>>>>
  /\ sets = << >>

\* C9: in that store keys("Customer:*:email") returns ["Customer:1:email"] and
\* get("Customer:1:email") returns "ahmed.rashid@email.com".
C9_MiddleWildcard ==
  C9_Scenario =>
    /\ (op.name = "keys" /\ op.args = <<P_mid>>) => ret = PyList(<<K_email>>)
    /\ (op.name = "get" /\ op.args = <<K_email>>) => ret = PyStr(V_mail)

\* C10: no key is bound in data and in sets at once, and keys("*") lists every
\* stored key once.
C10_OneEntryPerKey ==
  /\ \A key \in stored_keys : ~(dict_has(data, key) /\ dict_has(sets, key))
  /\ (op.name = "keys" /\ op.args = <<P_all>>) =>
       /\ Len(ret.v) = Cardinality(stored_keys)
       /\ \A i \in 1..Len(ret.v), j \in 1..Len(ret.v) : ret.v[i] = ret.v[j] => i = j

\* a key is malformed when it is empty or has a '{' that no '}' follows
is_malformed(key) ==
  \/ key = << >>
  \/ \E i \in 1..Len(key) :
       key[i] = "{" /\ \A j \in (i + 1)..Len(key) : key[j] # "}"

\* C11: set, hset, sadd and _get_slot reject a malformed key with an error, and
\* no malformed key is ever stored or given a slot.
C11_MalformedKeyRejected ==
  /\ \A key \in stored_keys \cup DOMAIN slots : ~is_malformed(key)
  /\ (op.name \in {"set", "hset", "sadd", "_get_slot"} /\ is_malformed(op.args[1]))
       => ret.tag = "raise"

\* C12: after any sequence of set, hset and sadd calls the keys of slots and of
\* node_assignment are exactly the keys present in data or sets, and each such
\* key k has slots[k] = _get_slot(k) and node_assignment[k] = _get_node(slots[k]),
\* also when a later sadd skipped the bookkeeping because the set existed.
C12_PlacementRecorded ==
  /\ DOMAIN slots = stored_keys
  /\ DOMAIN node_assignment = stored_keys
  /\ \A k \in stored_keys :
       /\ slots[k] = _get_slot(k)
       /\ node_assignment[k] = _get_node(slots[k])

\* a sadd on an existing set (no member was new) whose key keeps its placement
C12_Witness ==
  /\ op.name = "sadd"
  /\ op.args[1] = K_price
  /\ Len(op.args[2]) > 0
  /\ ret = PyInt(0)
  /\ K_price \in DOMAIN slots
  /\ slots[K_price] = 4505
  /\ node_assignment[K_price] = "Master-1 (port 7001)"

\* the recurrence h = ((h << 5) + h + byte) & 0xFFFF applied per character from
\* seed 0, in 16-bit arithmetic
RECURSIVE rolling16(_)
rolling16(key) ==
  IF key = << >> THEN 0
  ELSE LET h == rolling16(SubSeq(key, 1, Len(key) - 1))
       IN  (h * 32 + h + ord(key[Len(key)])) % 65536

\* the part of the key that _get_slot hashes
hashed_part(key) ==
  IF HasChar(key, "{") /\ HasChar(key, "}")
  THEN slice(key, index(key, "{") + 1, index(key, "}"))
  ELSE key

\* C13: for every key, _crc16 (accumulate without truncation, mask once with
\* 0xFFFF at the end) returns what the per-character 16-bit recurrence from
\* seed 0 gives, and _get_slot returns that value mod 16384.
C13_RollingHash ==
  /\ op.name = "_crc16" => ret = PyInt(rolling16(op.args[1]))
  /\ op.name = "_get_slot" => ret = PyInt(rolling16(hashed_part(op.args[1])) % 16384)

\* _crc16 on a 16-character key, whose accumulator has about 80 bits, with a
\* result above 2^15
C13_Witness ==
  /\ op.name = "_crc16"
  /\ op.args[1] = K_email
  /\ ret = PyInt(44607)

\* C14: with no writes performed, cluster_info completes without raising and
\* its per-node counts hold a count of zero for each of the four masters.
C14_EmptyStoreReport ==
  (op.name = "cluster_info" /\ node_assignment = << >>)
    => /\ ret.tag # "raise"
       /\ \A i \in 1..Len(Masters) :
            /\ Masters[i] \in DOMAIN node_counts
            /\ node_counts[Masters[i]] = 0

RECURSIVE sum_counts(_, _)
sum_counts(counts, nodes) ==
  IF nodes = {} THEN 0
  ELSE LET node == CHOOSE n \in nodes : TRUE
       IN  counts[node] + sum_counts(counts, nodes \ {node})

\* C20: in every reachable state the per-node key counts of cluster_info sum to
\* the number of distinct keys ever written (the size of node_assignment, which
\* is the number of distinct keys in data and sets together), and each key is
\* counted under exactly one node; a key written by set and sadd counts once.
C20_CountsSumToKeys ==
  /\ sum_counts(node_counts, DOMAIN node_counts) = Cardinality(DOMAIN node_assignment)
  /\ Cardinality(DOMAIN node_assignment) = Cardinality(stored_keys)
  /\ \A node \in DOMAIN node_counts :
       node_counts[node] =
         Cardinality({key \in DOMAIN node_assignment : node_assignment[key] = node})
  /\ \A key \in DOMAIN node_assignment : node_assignment[key] \in DOMAIN node_counts

\* cluster_info after K_email was written by set or hset and by sadd, and the
\* two other keys once: three keys on two masters
C20_Witness ==
  /\ op.name = "cluster_info"
  /\ dict_has(data, K_email) /\ dict_has(sets, K_email)
  /\ node_counts = ("Master-1 (port 7001)" :> 2) @@ ("Master-2 (port 7002)" :> 1)

\* C15: in the state right after hset(k, m), hgetall(k) returns exactly m, and
\* hget(k, f) returns m[f] for every field f of m and None for every other
\* field: a field written by an earlier hset on k and absent from m is gone.
C15_HsetReplaces ==
  op.name = "hset" =>
    LET k == op.args[1]
        m == op.args[2]
    IN  /\ hgetall_returns(k) = PyDict(m)
        /\ \A f \in Fields :
             hget_returns(k, f) = IF f \in DOMAIN m THEN PyStr(m[f]) ELSE PyNone

\* hset of the one-field mapping on a key that has a set as well: the field
\* "city" of the two-field mapping is not readable
C15_Witness ==
  /\ op = [name |-> "hset", args |-> <<K_email, Mapping2>>]
  /\ dict_has(sets, K_email)
  /\ hget_returns(K_email, F_city) = PyNone
  /\ hget_returns(K_email, F_email) = PyStr(V_Ahmed)

\* key k has the same entry, or none, in the dicts d1 and d2
same_entry(d1, d2, k) ==
  /\ dict_has(d1, k) <=> dict_has(d2, k)
  /\ dict_has(d1, k) => dict_get(d1, k) = dict_get(d2, k)

\* key k has the same record, or none, in the functions f1 and f2
same_record(f1, f2, k) ==
  /\ k \in DOMAIN f1 <=> k \in DOMAIN f2
  /\ k \in DOMAIN f1 => f1[k] = f2[k]

\* C18: a write to key k (set, hset or sadd) leaves the stored value, the set
\* members, the recorded slot and the recorded node of every other key
\* unchanged, and the reads get, hget, hgetall, smembers and keys leave data,
\* sets, slots and node_assignment unchanged.
C18_Frame ==
  [][ /\ op'.name \in {"set", "hset", "sadd"} =>
           \A k \in (stored_keys \cup stored_keys' \cup DOMAIN slots
                       \cup DOMAIN slots' \cup DOMAIN node_assignment
                       \cup DOMAIN node_assignment') \ {op'.args[1]} :
              /\ same_entry(data, data', k)
              /\ same_entry(sets, sets', k)
              /\ same_record(slots, slots', k)
              /\ same_record(node_assignment, node_assignment', k)
      /\ op'.name \in {"get", "hget", "hgetall", "smembers", "keys"} =>
           UNCHANGED store
    ]_vars

\* a set on one key while a second key holds a record and a set and a third
\* key holds a set
C18_Witness ==
  /\ op = [name |-> "set", args |-> <<K_first_name, V_mail>>]
  /\ dict_has(data, K_email) /\ dict_get(data, K_email) = PyDict(Mapping1)
  /\ dict_has(sets, K_email) /\ dict_get(sets, K_email) = {M_1001}
  /\ dict_has(sets, K_price) /\ dict_get(sets, K_price) = {M_1001, M_1002}

\* C19: the store only grows: a key present in data or sets stays present, a
\* member of the set at a key stays a member, and the recorded slot and node
\* of a key never change after they are first recorded.
C19_StoreOnlyGrows ==
  [][ /\ \A k \in Range(dict_keys(data)) : dict_has(data', k)
      /\ \A k \in Range(dict_keys(sets)) :
           /\ dict_has(sets', k)
           /\ dict_get(sets, k) \subseteq dict_get(sets', k)
      /\ \A k \in DOMAIN slots : k \in DOMAIN slots' /\ slots'[k] = slots[k]
      /\ \A k \in DOMAIN node_assignment :
           /\ k \in DOMAIN node_assignment'
           /\ node_assignment'[k] = node_assignment[k]
    ]_vars

\* a sadd that added one member to a set that held the other, on a key that
\* is bound in data as well
C19_Witness ==
  /\ op = [name |-> "sadd", args |-> <<K_email, <<M_1002>>>>]
  /\ ret = PyInt(1)
  /\ dict_get(sets, K_email) = {M_1001, M_1002}
  /\ dict_has(data, K_email)
  /\ slots[K_email] = 11839

\* the ids, out of ids, whose record under prefix has the string value in field
ids_with(prefix, ids, field, value) ==
  {id \in ids : hget_returns(prefix \o str_int(id), field) = PyStr(value)}

\* the product ids whose record has a category equal to g ignoring case
products_in(g) ==
  {id \in ProductIds :
     LET category == hget_returns(S_product \o str_int(id), F_category)
     IN  category.tag = "str" /\ lower(category.v) = lower(g)}

\* C16: after migrate_to_redis on an empty simulator over rows with unique
\* primary keys, the set indexes agree with the primary records: for every
\* customer c the members of idx:customer:c:orders are the ids of the orders
\* whose hash has customer_id c, for every status s the members of
\* idx:orders:status:s are the ids of the orders whose hash has status s, and
\* for every category g the members of idx:product:category:lowercase(g) are
\* the ids of the products whose hash has a category equal to g ignoring case.
C16_SetIndexesAgree ==
  migrated =>
    /\ \A c \in CustomerIds :
         smembers_returns(S_idx_customer \o str_int(c) \o S_orders)
           = PySet({str_int(id) :
                      id \in ids_with(S_order, OrderIds, F_customer_id, str_int(c))})
    /\ \A s \in {V_delivered, V_shipped, S_pending} :
         smembers_returns(S_idx_orders_status \o s)
           = PySet({str_int(id) : id \in ids_with(S_order, OrderIds, F_status, s)})
    /\ \A g \in {V_Electronics, V_electronics, V_Furniture, S_uncategorized} :
         smembers_returns(S_idx_product_category \o lower(g))
           = PySet({str_int(id) : id \in products_in(g)})

\* the migration is over; the two products have the categories Electronics
\* and electronics, the two orders are of customer 2, one with the status
\* pending and one with no status
C16_Witness ==
  /\ migrated
  /\ hget_returns(S_product \o str_int(101), F_category) = PyStr(V_Electronics)
  /\ hget_returns(S_product \o str_int(102), F_category) = PyStr(V_electronics)
  /\ smembers_returns(S_idx_product_category \o V_electronics)
       = PySet({str_int(101), str_int(102)})
  /\ Len(mig.orders) = 2
  /\ mig.orders[1][4] = S_pending /\ mig.orders[2][4] = NULL
  /\ smembers_returns(S_idx_orders_status \o S_pending) = PySet({M_1001, M_1002})
  /\ smembers_returns(S_idx_customer \o str_int(2) \o S_orders)
       = PySet({M_1001, M_1002})

\* C17: after migrate_to_redis over customers with pairwise distinct emails,
\* for every customer row get("idx:customer:email:" + email) returns the
\* customer's id as a string and hget("customer:" + that id, "email") returns
\* the same email.
C17_EmailIndexRoundTrip ==
  migrated =>
    \A i \in 1..Len(mig.customers) :
      LET row == mig.customers[i]
          id == get_returns(S_idx_customer_email \o row[4])
      IN  /\ id = PyStr(str_int(row[1]))
          /\ hget_returns(S_customer \o id.v, F_email) = PyStr(row[4])

\* the migration is over; of two customers, customer 1 has the second email
C17_Witness ==
  /\ migrated
  /\ Len(mig.customers) = 2
  /\ Len(mig.orders) = 2
  /\ get_returns(S_idx_customer_email \o V_mail_fatima) = PyStr(<<"1">>)
  /\ get_returns(S_idx_customer_email \o V_mail_ahmed) = PyStr(<<"2">>)
  /\ hget_returns(S_customer \o <<"1">>, F_email) = PyStr(V_mail_fatima)

====
